---- MODULE Spec2Model ----
(***************************************************************************)
(* Model of submit_invoice_to_foundry.py: the command-line driver main,    *)
(* analyze_invoice, extract_invoice_fields and store_in_cosmos.            *)
(*                                                                         *)
(* Python values are records [type, val] whose val is always a string, so  *)
(* that None, "" and "None" are three different values, as in Python.      *)
(***************************************************************************)
EXTENDS Integers, Sequences, FiniteSets, TLC

VARIABLES
    pc,              \* position of the run in main and its callees
    environ,         \* os.environ: variable name -> Str(..) or None
    file_exists,     \* args.invoice_file.exists()
    can_open,        \* whether file_path.open("rb") succeeds
    client,          \* credential mode of the DocumentIntelligenceClient, or None
    file_open,       \* the handle f of the with statement is open
    opens,           \* number of file_path.open calls made
    pending,         \* exception travelling through the with statement
    result,          \* poller.result(), or None
    invoice_data,    \* the ExtractionOutput, or None
    cosmos_client,   \* TRUE once CosmosClient(...) was constructed
    item,            \* the envelope built by store_in_cosmos, or None
    cosmos_item_id,  \* the value store_in_cosmos returned, or None
    calls,           \* collaborator invocations and what each raised, in order
    container_items, \* bodies the store accepted
    uuid_count,      \* number of uuid4() calls made
    stdout,          \* lines printed
    error            \* the uncaught exception that ended the run, or NoError

vars == <<pc, environ, file_exists, can_open, client, file_open, opens, pending,
          result, invoice_data, cosmos_client, item, cosmos_item_id, calls,
          container_items, uuid_count, stdout, error>>

---------------------------------------------------------------------------
(* Bounds *)

\* longest documents sequence of an AnalysisResult
MaxDocs == 2

---------------------------------------------------------------------------
(* Python values *)

None == [type |-> "NoneType", val |-> ""]
Str(s) == [type |-> "str", val |-> s]
Float(s) == [type |-> "float", val |-> s]
Date(s) == [type |-> "date", val |-> s]

Exception(t, m) == [type |-> t, msg |-> m]
NoError == Exception("", <<>>)
AttributeError == [type |-> "AttributeError", val |-> "NoneType"]

\* str(x): str(None) is the four-letter string "None"; str of a date is its
\* ISO text, str of a string is itself.
PyStr(x) == IF x = AttributeError THEN AttributeError ELSE Str(IF x = None THEN "None" ELSE x.val)

\* bool(x) of None or a str, as the conditionals and the "or" of the code use it
Truthy(x) == x # None /\ ~(x.type = "str" /\ x.val = "")

\* obj.name: an attribute read on None raises AttributeError
GetAttr(obj, name) == IF obj = None \/ obj = AttributeError THEN AttributeError ELSE obj[name]

\* mapping.get(key)
DictGet(mapping, key) == IF key \in DOMAIN mapping THEN mapping[key] ELSE None

---------------------------------------------------------------------------
(* The analysis service's result objects *)

FieldNames == {"VendorName", "InvoiceId", "InvoiceDate", "CustomerName",
               "SubTotal", "TotalTax", "InvoiceTotal"}

SlotNames == {"vendorName", "invoiceId", "invoiceDate", "customerName",
              "subTotal", "totalTax", "invoiceTotal", "currency", "confidence"}

CurrencyValue(a, c) == [amount |-> Float(a), currency_code |-> Str(c)]

StringField(s) ==
    [kind |-> "string", value_string |-> Str(s), value_date |-> None, value_currency |-> None]
DateField(d) ==
    [kind |-> "date", value_string |-> None, value_date |-> Date(d), value_currency |-> None]
CurrencyField(a, c) ==
    [kind |-> "currency", value_string |-> None, value_date |-> None,
     value_currency |-> CurrencyValue(a, c)]

\* the values a detected field can carry: a string (possibly empty), a date,
\* a currency amount with its code
FieldValues == {StringField(""), StringField("INV-100"), DateField("2024-01-05"),
                CurrencyField("150.0", "USD")}

EmptyFields == [k \in {} |-> None]

\* the end-to-end document of the specification's section 8
EndToEndFields ==
    [k \in {"VendorName", "InvoiceId", "InvoiceTotal"} |->
        IF k = "VendorName" THEN StringField("Acme Co")
        ELSE IF k = "InvoiceId" THEN StringField("INV-100")
        ELSE CurrencyField("150.0", "USD")]

\* every field detected, each with the kind of value its slot reads
WellTypedFields ==
    [k \in FieldNames |->
        IF k \in {"VendorName", "CustomerName"} THEN StringField("Acme Co")
        ELSE IF k = "InvoiceId" THEN StringField("INV-100")
        ELSE IF k = "InvoiceDate" THEN DateField("2024-01-05")
        ELSE IF k = "InvoiceTotal" THEN CurrencyField("150.0", "USD")
        ELSE CurrencyField("0.0", "EUR")]

\* SubTotal and TotalTax carry a currency, InvoiceTotal does not
NoTotalCurrencyFields ==
    [k \in {"SubTotal", "TotalTax", "InvoiceTotal"} |->
        IF k = "InvoiceTotal" THEN StringField("INV-100") ELSE CurrencyField("0.0", "EUR")]

\* an invoice number detected as the empty string
EmptyInvoiceIdFields == [k \in {"InvoiceId"} |-> StringField("")]

\* doc.fields: None, empty, one field of any kind, every field of one kind,
\* and the four mappings above
FieldMaps ==
    {None, EmptyFields, EndToEndFields, WellTypedFields, NoTotalCurrencyFields,
     EmptyInvoiceIdFields}
    \cup {[k \in {f} |-> v] : f \in FieldNames, v \in FieldValues}
    \cup {[k \in FieldNames |-> v] : v \in FieldValues}

Confidences == {Float("0.95"), Float("0.5")}

Documents == {[fields |-> m, confidence |-> c] : m \in FieldMaps, c \in Confidences}

\* result.documents: the sequences over D of length n
DocumentSeqs(D, n) == [1..n -> D]

\* what the service returns to a run of main
ServiceDocuments ==
    {[fields |-> m, confidence |-> Float("0.95")] :
        m \in {None, EndToEndFields, EmptyInvoiceIdFields,
               [k \in {"InvoiceDate"} |-> StringField("INV-100")]}}

---------------------------------------------------------------------------
(* extract_invoice_fields *)

\* doc.fields or {}
FieldsOf(doc) == IF doc.fields = None \/ DOMAIN doc.fields = {} THEN EmptyFields ELSE doc.fields

\* fields.get(K).value_string if fields.get(K) else None
StringSlot(fields, key) ==
    IF DictGet(fields, key) # None
    THEN GetAttr(DictGet(fields, key), "value_string")
    ELSE None

\* str(fields.get("InvoiceDate").value_date) if fields.get("InvoiceDate") else None
DateSlot(fields) ==
    IF DictGet(fields, "InvoiceDate") # None
    THEN PyStr(GetAttr(DictGet(fields, "InvoiceDate"), "value_date"))
    ELSE None

\* a variant that reads the sub-value without testing it
CurrencyAttrUnchecked(fields, key, attr) ==
    IF DictGet(fields, key) # None
    THEN GetAttr(GetAttr(DictGet(fields, key), "value_currency"), attr)
    ELSE None

\* fields.get(K).value_currency.<attr> if fields.get(K) and fields.get(K).value_currency else None
CurrencyAttr(fields, key, attr) ==
    IF DictGet(fields, key) # None /\ GetAttr(DictGet(fields, key), "value_currency") # None
    THEN GetAttr(GetAttr(DictGet(fields, key), "value_currency"), attr)
    ELSE None

AmountSlot(fields, key) == CurrencyAttr(fields, key, "amount")

\* a variant that takes the code from the SubTotal field
CurrencySlotFromSubTotal(fields) == CurrencyAttr(fields, "SubTotal", "currency_code")

CurrencySlot(fields) == CurrencyAttr(fields, "InvoiceTotal", "currency_code")

\* the dict literal of the loop body
parsed(doc) ==
    LET fields == FieldsOf(doc)
    IN [vendorName   |-> StringSlot(fields, "VendorName"),
        invoiceId    |-> StringSlot(fields, "InvoiceId"),
        invoiceDate  |-> DateSlot(fields),
        customerName |-> StringSlot(fields, "CustomerName"),
        subTotal     |-> AmountSlot(fields, "SubTotal"),
        totalTax     |-> AmountSlot(fields, "TotalTax"),
        invoiceTotal |-> AmountSlot(fields, "InvoiceTotal"),
        currency     |-> CurrencySlot(fields),
        confidence   |-> doc.confidence]

Raises(rec) == \E k \in DOMAIN rec : rec[k] = AttributeError

\* for doc in result.documents: ... output["documents"].append(parsed)
RECURSIVE extract_loop(_, _)
extract_loop(docs, output) ==
    IF docs = <<>> THEN output
    ELSE LET p == parsed(Head(docs))
         IN IF Raises(p) THEN AttributeError
            ELSE extract_loop(Tail(docs), [documents |-> Append(output.documents, p)])

\* a variant whose loop passes over documents that have no fields
RECURSIVE extract_loop_skip(_, _)
extract_loop_skip(docs, output) ==
    IF docs = <<>> THEN output
    ELSE IF DOMAIN FieldsOf(Head(docs)) = {} THEN extract_loop_skip(Tail(docs), output)
    ELSE LET p == parsed(Head(docs))
         IN IF Raises(p) THEN AttributeError
            ELSE extract_loop_skip(Tail(docs), [documents |-> Append(output.documents, p)])

extract_invoice_fields_skip_empty(res) == extract_loop_skip(res.documents, [documents |-> <<>>])

extract_invoice_fields(res) == extract_loop(res.documents, [documents |-> <<>>])

---------------------------------------------------------------------------
(* The environment and the collaborators *)

AnalysisEnv == <<"DOCUMENTINTELLIGENCE_ENDPOINT", "DOCUMENTINTELLIGENCE_API_KEY">>

\* in the order of the dict literal of store_in_cosmos
CosmosEnv == <<"COSMOS_ENDPOINT", "COSMOS_KEY", "COSMOS_DATABASE", "COSMOS_CONTAINER">>

Range(s) == {s[i] : i \in DOMAIN s}

EnvNames == Range(AnalysisEnv) \cup Range(CosmosEnv)

\* os.environ.get(name): unset, set to the empty string, or set to a value
EnvValues == {None, Str(""), Str("configured")}

\* errors the analysis client raises; they reach the caller unchanged
AnalysisErrors == {Exception("HttpResponseError", <<"analysis failed">>)}

\* errors create_item raises: the first is the one the except clause names
StoreErrors == {Exception("CosmosHttpResponseError", <<"(429) TooManyRequests">>),
                Exception("ServiceRequestError", <<"connection refused">>)}

\* one invocation of a collaborator, with what it raised (NoError: it returned)
Call(api, raised) == [api |-> api, raised |-> raised]

UuidPool == <<"uuid-1", "uuid-2">>

\* str(uuid4()) of the (n+1)-th call: never a value seen before
uuid4(n) == Str(UuidPool[n + 1])

---------------------------------------------------------------------------
(* Statement order *)

\* a variant of main that prints the JSON before it persists
main_next_print_first(stmt) ==
    CASE stmt = "check_file"      -> "analyze_invoice"
      [] stmt = "analyze_invoice" -> "print_json"
      [] stmt = "print_json"      -> "store_in_cosmos"
      [] stmt = "store_in_cosmos" -> "print_confirm"
      [] OTHER                    -> "done"

\* main: the statement that follows stmt
main_next(stmt) ==
    CASE stmt = "check_file"      -> "analyze_invoice"
      [] stmt = "analyze_invoice" -> "store_in_cosmos"
      [] stmt = "store_in_cosmos" -> "print_json"
      [] stmt = "print_json"      -> "print_confirm"
      [] OTHER                    -> "done"

\* a variant of analyze_invoice that waits for the result inside the with block
analyze_next_poll_in_with(step) ==
    CASE step = "analyze_config" -> "open"
      [] step = "open"           -> "submit"
      [] step = "submit"         -> "poll"
      [] step = "poll"           -> "close"
      [] step = "close"          -> "extract"
      [] OTHER                   -> "return"

\* analyze_invoice: the step that follows step; the with block is open .. close
analyze_next(step) ==
    CASE step = "analyze_config" -> "open"
      [] step = "open"           -> "submit"
      [] step = "submit"         -> "close"
      [] step = "close"          -> "poll"
      [] step = "poll"           -> "extract"
      [] OTHER                   -> "return"

\* store_in_cosmos: the step that follows step
store_next(step) ==
    CASE step = "store_config" -> "build_item"
      [] step = "build_item"   -> "create_item"
      [] OTHER                 -> "return"

\* the first position of a statement of main
Entry(stmt) ==
    CASE stmt = "analyze_invoice" -> "analyze_config"
      [] stmt = "store_in_cosmos" -> "store_config"
      [] OTHER                    -> stmt

AfterAnalyze(step) ==
    IF analyze_next(step) = "return" THEN Entry(main_next("analyze_invoice"))
    ELSE analyze_next(step)

AfterStore(step) ==
    IF store_next(step) = "return" THEN Entry(main_next("store_in_cosmos"))
    ELSE store_next(step)

---------------------------------------------------------------------------
(* main *)

Init ==
    /\ pc = "check_file"
    /\ environ \in [EnvNames -> EnvValues]
    /\ file_exists \in BOOLEAN
    /\ can_open \in {b \in BOOLEAN : b => file_exists}
    /\ client = None
    /\ file_open = FALSE
    /\ opens = 0
    /\ pending = NoError
    /\ result = None
    /\ invoice_data = None
    /\ cosmos_client = FALSE
    /\ item = None
    /\ cosmos_item_id = None
    /\ calls = <<>>
    /\ container_items = <<>>
    /\ uuid_count = 0
    /\ stdout = <<>>
    /\ error = NoError

\* a variant of main without the existence check
main_check_file_skipped ==
    /\ pc = "check_file"
    /\ pc' = Entry(main_next("check_file"))
    /\ UNCHANGED <<environ, file_exists, can_open, client, file_open, opens, pending,
                   result, invoice_data, cosmos_client, item, cosmos_item_id, calls,
                   container_items, uuid_count, stdout, error>>

\* if not args.invoice_file.exists(): raise FileNotFoundError(...)
main_check_file ==
    /\ pc = "check_file"
    /\ IF ~file_exists
       THEN /\ error' = Exception("FileNotFoundError", <<"Invoice file not found">>)
            /\ pc' = "exit"
       ELSE /\ error' = error
            /\ pc' = Entry(main_next("check_file"))
    /\ UNCHANGED <<environ, file_exists, can_open, client, file_open, opens, pending,
                   result, invoice_data, cosmos_client, item, cosmos_item_id, calls,
                   container_items, uuid_count, stdout>>

\* build_client: key credential if api_key is truthy, else the ambient identity
build_client(endpoint, api_key) ==
    IF Truthy(api_key) THEN Str("AzureKeyCredential") ELSE Str("DefaultAzureCredential")

\* analyze_invoice up to the construction of the client
analyze_config ==
    /\ pc = "analyze_config"
    /\ LET endpoint == environ["DOCUMENTINTELLIGENCE_ENDPOINT"]
           api_key == environ["DOCUMENTINTELLIGENCE_API_KEY"]
       IN IF ~Truthy(endpoint)
          THEN /\ error' = Exception("ValueError",
                                     <<"Set DOCUMENTINTELLIGENCE_ENDPOINT in your environment.">>)
               /\ pc' = "exit"
               /\ client' = client
          ELSE /\ client' = build_client(endpoint, api_key)
               /\ pc' = AfterAnalyze("analyze_config")
               /\ error' = error
    /\ UNCHANGED <<environ, file_exists, can_open, file_open, opens, pending,
                   result, invoice_data, cosmos_client, item, cosmos_item_id, calls,
                   container_items, uuid_count, stdout>>

\* with file_path.open("rb") as f:
open_file ==
    /\ pc = "open"
    /\ opens' = opens + 1
    /\ IF can_open
       THEN /\ file_open' = TRUE
            /\ pc' = AfterAnalyze("open")
            /\ error' = error
       ELSE /\ file_open' = file_open
            /\ pc' = "exit"
            /\ error' = Exception("OSError", <<"cannot open invoice file">>)
    /\ UNCHANGED <<environ, file_exists, can_open, client, pending,
                   result, invoice_data, cosmos_client, item, cosmos_item_id, calls,
                   container_items, uuid_count, stdout>>

\* poller = client.begin_analyze_document(...), inside the with block
submit ==
    /\ pc = "submit"
    /\ \E outcome \in {NoError} \cup AnalysisErrors :
          /\ calls' = Append(calls, Call("begin_analyze_document", outcome))
          /\ pending' = outcome
    /\ pc' = AfterAnalyze("submit")
    /\ UNCHANGED <<environ, file_exists, can_open, client, file_open, opens,
                   result, invoice_data, cosmos_client, item, cosmos_item_id,
                   container_items, uuid_count, stdout, error>>

\* the exit of the with block: f is closed, then a pending exception goes on
close_file ==
    /\ pc = "close"
    /\ file_open' = FALSE
    /\ IF pending # NoError
       THEN /\ error' = pending
            /\ pc' = "exit"
       ELSE /\ error' = error
            /\ pc' = AfterAnalyze("close")
    /\ pending' = NoError
    /\ UNCHANGED <<environ, file_exists, can_open, client, opens,
                   result, invoice_data, cosmos_client, item, cosmos_item_id, calls,
                   container_items, uuid_count, stdout>>

\* result = poller.result(), the service answered
poll_result ==
    /\ pc = "poll"
    /\ calls' = Append(calls, Call("poller.result", NoError))
    /\ \E n \in 0..MaxDocs : \E ds \in DocumentSeqs(ServiceDocuments, n) :
          result' = [documents |-> ds]
    /\ pc' = AfterAnalyze("poll")
    /\ UNCHANGED <<environ, file_exists, can_open, client, file_open, opens, pending,
                   invoice_data, cosmos_client, item, cosmos_item_id,
                   container_items, uuid_count, stdout, error>>

\* result = poller.result(), the service or the transport failed
poll_error ==
    /\ pc = "poll"
    /\ \E e \in AnalysisErrors :
          /\ calls' = Append(calls, Call("poller.result", e))
          /\ error' = e
    /\ pc' = "exit"
    /\ UNCHANGED <<environ, file_exists, can_open, client, file_open, opens, pending,
                   result, invoice_data, cosmos_client, item, cosmos_item_id,
                   container_items, uuid_count, stdout>>

\* return extract_invoice_fields(result)
extract ==
    /\ pc = "extract"
    /\ LET output == extract_invoice_fields(result)
       IN IF output = AttributeError
          THEN /\ error' = Exception("AttributeError", <<"NoneType">>)
               /\ pc' = "exit"
               /\ invoice_data' = invoice_data
          ELSE /\ invoice_data' = output
               /\ pc' = AfterAnalyze("extract")
               /\ error' = error
    /\ UNCHANGED <<environ, file_exists, can_open, client, file_open, opens, pending,
                   result, cosmos_client, item, cosmos_item_id, calls,
                   container_items, uuid_count, stdout>>

---------------------------------------------------------------------------
(* store_in_cosmos *)

\* a variant that reports only the first missing setting
missing_config_first_only(env) ==
    LET all == SelectSeq(CosmosEnv, LAMBDA name : ~Truthy(env[name]))
    IN IF all = <<>> THEN <<>> ELSE <<Head(all)>>

\* the list comprehension over the four settings: those whose value is falsy
missing_config(env) == SelectSeq(CosmosEnv, LAMBDA name : ~Truthy(env[name]))

\* the four reads, the check of missing, and the construction of the clients
store_config ==
    /\ pc = "store_config"
    /\ LET missing == missing_config(environ)
       IN IF missing # <<>>
          THEN /\ error' = Exception("ValueError",
                                     <<"Missing required Cosmos DB configuration">> \o missing)
               /\ pc' = "exit"
               /\ cosmos_client' = cosmos_client
          ELSE /\ cosmos_client' = TRUE
               /\ pc' = AfterStore("store_config")
               /\ error' = error
    /\ UNCHANGED <<environ, file_exists, can_open, client, file_open, opens, pending,
                   result, invoice_data, item, cosmos_item_id, calls,
                   container_items, uuid_count, stdout>>

\* (invoice_data.get("documents") or [{}])[0]
first_doc_of(data) ==
    IF "documents" \notin DOMAIN data \/ Len(data.documents) = 0
    THEN EmptyFields
    ELSE data.documents[1]

\* first_doc.get("invoiceId") or str(uuid4()): the call is made only when needed
needs_fallback(first_doc) == ~Truthy(DictGet(first_doc, "invoiceId"))

\* a variant whose fallback is the identifier generated for the envelope's id
envelope_invoice_id_same_uuid(first_doc, n) ==
    IF needs_fallback(first_doc) THEN uuid4(n - 1) ELSE DictGet(first_doc, "invoiceId")

envelope_invoice_id(first_doc, n) ==
    IF needs_fallback(first_doc) THEN uuid4(n) ELSE DictGet(first_doc, "invoiceId")

\* the item dict literal; n uuid4 calls were made before it
envelope(data, n) ==
    [id             |-> uuid4(n),
     invoiceId      |-> envelope_invoice_id(first_doc_of(data), n + 1),
     sourceFile     |-> Str("invoice.pdf"),
     processedAtUtc |-> Str("2026-01-01T00:00:00+00:00"),
     extract        |-> data]

build_item ==
    /\ pc = "build_item"
    /\ item' = envelope(invoice_data, uuid_count)
    /\ uuid_count' = uuid_count + (IF needs_fallback(first_doc_of(invoice_data)) THEN 2 ELSE 1)
    /\ pc' = AfterStore("build_item")
    /\ UNCHANGED <<environ, file_exists, can_open, client, file_open, opens, pending,
                   result, invoice_data, cosmos_client, cosmos_item_id, calls,
                   container_items, stdout, error>>

\* container_client.create_item(body=item) succeeded; return item["id"]
create_item_ok ==
    /\ pc = "create_item"
    /\ calls' = Append(calls, Call("create_item", NoError))
    /\ container_items' = Append(container_items, item)
    /\ cosmos_item_id' = item.id
    /\ pc' = AfterStore("create_item")
    /\ UNCHANGED <<environ, file_exists, can_open, client, file_open, opens, pending,
                   result, invoice_data, cosmos_client, item,
                   uuid_count, stdout, error>>

\* except exceptions.CosmosHttpResponseError as exc: raise RuntimeError(...) from exc;
\* any other exception is not caught
raised_by_store(exc) ==
    IF exc.type = "CosmosHttpResponseError"
    THEN Exception("RuntimeError",
                   <<"Failed to write invoice extraction to Cosmos DB">> \o exc.msg)
    ELSE exc

\* a variant that writes once more after a first store-level HTTP error
create_item_error_retry ==
    /\ pc = "create_item"
    /\ \E exc \in StoreErrors :
          /\ calls' = Append(calls, Call("create_item", exc))
          /\ IF exc.type = "CosmosHttpResponseError" /\ calls = SelectSeq(calls, LAMBDA c : c.api # "create_item")
             THEN /\ error' = error
                  /\ pc' = "create_item"
             ELSE /\ error' = raised_by_store(exc)
                  /\ pc' = "exit"
    /\ UNCHANGED <<environ, file_exists, can_open, client, file_open, opens, pending,
                   result, invoice_data, cosmos_client, item, cosmos_item_id,
                   container_items, uuid_count, stdout>>

\* container_client.create_item(body=item) raised
create_item_error ==
    /\ pc = "create_item"
    /\ \E exc \in StoreErrors :
          /\ calls' = Append(calls, Call("create_item", exc))
          /\ error' = raised_by_store(exc)
    /\ pc' = "exit"
    /\ UNCHANGED <<environ, file_exists, can_open, client, file_open, opens, pending,
                   result, invoice_data, cosmos_client, item, cosmos_item_id,
                   container_items, uuid_count, stdout>>

---------------------------------------------------------------------------
(* the two prints of main *)

\* print(json.dumps(invoice_data, indent=2, default=str))
print_json ==
    /\ pc = "print_json"
    /\ stdout' = Append(stdout, [line |-> "json", data |-> invoice_data])
    /\ pc' = Entry(main_next("print_json"))
    /\ UNCHANGED <<environ, file_exists, can_open, client, file_open, opens, pending,
                   result, invoice_data, cosmos_client, item, cosmos_item_id, calls,
                   container_items, uuid_count, error>>

\* print(f"Saved extracted invoice data to Cosmos DB item id: {cosmos_item_id}")
print_confirm ==
    /\ pc = "print_confirm"
    /\ stdout' = Append(stdout, [line |-> "saved", data |-> cosmos_item_id])
    /\ pc' = Entry(main_next("print_confirm"))
    /\ UNCHANGED <<environ, file_exists, can_open, client, file_open, opens, pending,
                   result, invoice_data, cosmos_client, item, cosmos_item_id, calls,
                   container_items, uuid_count, error>>

Next ==
    \/ main_check_file
    \/ analyze_config
    \/ open_file
    \/ submit
    \/ close_file
    \/ poll_result
    \/ poll_error
    \/ extract
    \/ store_config
    \/ build_item
    \/ create_item_ok
    \/ create_item_error
    \/ print_json
    \/ print_confirm

Spec == Init /\ [][Next]_vars

---------------------------------------------------------------------------
(* extract_invoice_fields called on any AnalysisResult *)

InitExtract ==
    /\ pc = "extract"
    /\ \E n \in 0..MaxDocs : \E ds \in DocumentSeqs(Documents, n) :
          result = [documents |-> ds]
    /\ environ = [n \in EnvNames |-> None]
    /\ file_exists = TRUE
    /\ can_open = TRUE
    /\ client = None
    /\ file_open = FALSE
    /\ opens = 0
    /\ pending = NoError
    /\ invoice_data = None
    /\ cosmos_client = FALSE
    /\ item = None
    /\ cosmos_item_id = None
    /\ calls = <<>>
    /\ container_items = <<>>
    /\ uuid_count = 0
    /\ stdout = <<>>
    /\ error = NoError

NextExtract == extract

SpecExtract == InitExtract /\ [][NextExtract]_vars

---------------------------------------------------------------------------
(* Properties of extract_invoice_fields, checked under SpecExtract *)

\* extract_invoice_fields has returned or raised
Extracted == pc # "extract"

\* the field key is in the document's field mapping
Present(doc, key) == doc.fields # None /\ key \in DOMAIN doc.fields

\* the field is present and carries a currency sub-value
HasCurrency(doc, key) == Present(doc, key) /\ doc.fields[key].value_currency # None

\* the source field of each slot but confidence
SourceOf(slot) ==
    CASE slot = "vendorName"   -> "VendorName"
      [] slot = "invoiceId"    -> "InvoiceId"
      [] slot = "invoiceDate"  -> "InvoiceDate"
      [] slot = "customerName" -> "CustomerName"
      [] slot = "subTotal"     -> "SubTotal"
      [] slot = "totalTax"     -> "TotalTax"
      [] OTHER                 -> "InvoiceTotal"

CurrencySlots == {"subTotal", "totalTax", "invoiceTotal", "currency"}

\* C1: for every AnalysisResult the output has exactly one record per input
\* Document, the i-th record is that of the i-th Document (it carries its
\* confidence, and its invoiceId is null exactly when that Document has no
\* InvoiceId string), and every record has exactly the nine slots.
C1_OneRecordPerDocument ==
    Extracted =>
        /\ error = NoError
        /\ invoice_data # None
        /\ DOMAIN invoice_data = {"documents"}
        /\ Len(invoice_data.documents) = Len(result.documents)
        /\ \A i \in 1..Len(result.documents) :
              LET doc == result.documents[i]
                  rec == invoice_data.documents[i]
              IN /\ DOMAIN rec = SlotNames
                 /\ rec.confidence = doc.confidence
                 /\ (rec.invoiceId = None) <=>
                        (~Present(doc, "InvoiceId") \/ doc.fields["InvoiceId"].value_string = None)

\* two different Documents, the first without a field mapping, were extracted
C1_Witness ==
    /\ Extracted
    /\ Len(result.documents) = 2
    /\ result.documents[1].fields = None
    /\ result.documents[1].confidence # result.documents[2].confidence
    /\ Len(invoice_data.documents) = 2
    /\ invoice_data.documents[2].vendorName = Str("Acme Co")

\* C2: extraction never raises, also when a Document has no field mapping; a
\* slot whose source field key is missing is null; a currency-bearing slot
\* whose field is present without a currency sub-value is null.
C2_AbsentFieldsAreNull ==
    Extracted =>
        /\ error = NoError
        /\ invoice_data # None
        /\ \A i \in 1..Len(result.documents) :
              LET doc == result.documents[i]
                  rec == invoice_data.documents[i]
              IN \A slot \in SlotNames \ {"confidence"} :
                    /\ ~Present(doc, SourceOf(slot)) => rec[slot] = None
                    /\ (slot \in CurrencySlots /\ ~HasCurrency(doc, SourceOf(slot)))
                          => rec[slot] = None

\* a Document without a field mapping and one whose SubTotal is present
\* without a currency sub-value were extracted
C2_Witness ==
    /\ Extracted
    /\ error = NoError
    /\ Len(result.documents) = 2
    /\ result.documents[1].fields = None
    /\ Present(result.documents[2], "SubTotal")
    /\ ~HasCurrency(result.documents[2], "SubTotal")
    /\ invoice_data.documents[2].subTotal = None

\* C3: in every record the currency slot is non-null if and only if the
\* InvoiceTotal field is present and carries a currency sub-value, and then it
\* is that sub-value's code and invoiceTotal is its amount.
C3_CurrencyFromInvoiceTotal ==
    (Extracted /\ invoice_data # None) =>
        \A i \in 1..Len(invoice_data.documents) :
            LET doc == result.documents[i]
                rec == invoice_data.documents[i]
            IN /\ (rec.currency # None) <=> HasCurrency(doc, "InvoiceTotal")
               /\ (rec.currency # None) <=> (rec.invoiceTotal # None)
               /\ HasCurrency(doc, "InvoiceTotal") =>
                     /\ rec.currency = doc.fields["InvoiceTotal"].value_currency.currency_code
                     /\ rec.invoiceTotal = doc.fields["InvoiceTotal"].value_currency.amount

\* SubTotal and TotalTax carry a currency and InvoiceTotal does not: the amounts
\* are extracted and the currency slot is null
C3_Witness ==
    /\ Extracted
    /\ Len(result.documents) >= 1
    /\ HasCurrency(result.documents[1], "SubTotal")
    /\ HasCurrency(result.documents[1], "TotalTax")
    /\ Present(result.documents[1], "InvoiceTotal")
    /\ ~HasCurrency(result.documents[1], "InvoiceTotal")
    /\ invoice_data.documents[1].subTotal # None
    /\ invoice_data.documents[1].currency = None

\* texts that are the string form of a date value
DateTexts == {"2024-01-05"}

\* C9: the invoiceDate slot is null when the InvoiceDate field is absent and is
\* otherwise the string form of a date value, whatever kind of value the
\* present field carries.
C9_InvoiceDateNullOrDate ==
    (Extracted /\ invoice_data # None) =>
        \A i \in 1..Len(invoice_data.documents) :
            LET doc == result.documents[i]
                rec == invoice_data.documents[i]
            IN /\ ~Present(doc, "InvoiceDate") => rec.invoiceDate = None
               /\ Present(doc, "InvoiceDate") => rec.invoiceDate \in {Str(d) : d \in DateTexts}

---------------------------------------------------------------------------
(* Properties of main, analyze_invoice and store_in_cosmos, checked under Spec *)

\* the invocations of one collaborator operation
CallsOf(api) == SelectSeq(calls, LAMBDA c : c.api = api)

\* the process exit status: an uncaught exception ends the interpreter with 1
ExitStatus == IF error # NoError THEN 1 ELSE 0

\* store_in_cosmos was entered and is past its configuration check
PastStoreConfig == invoice_data # None /\ pc # "store_config"

\* store_in_cosmos ended with its configuration error
StoreConfigFailed ==
    /\ pc = "exit"
    /\ error.type = "ValueError"
    /\ Head(error.msg) = "Missing required Cosmos DB configuration"

Unset == SelectSeq(CosmosEnv, LAMBDA name : environ[name] = None)

UnsetOrEmpty == SelectSeq(CosmosEnv, LAMBDA name : environ[name] \in {None, Str("")})

\* the invoiceId of the first extracted record, None when there is no record
FirstInvoiceId ==
    IF Len(invoice_data.documents) = 0 THEN None ELSE invoice_data.documents[1].invoiceId

IsFreshId(x) == x.type = "str" /\ x.val \in Range(UuidPool)

\* C4 as stated: the envelope's invoiceId is never null; it is the first
\* document's invoiceId when that is not null, and otherwise a fresh identifier
\* distinct from the envelope's id; the nested extract is left as it was.
C4_Original ==
    item # None =>
        /\ item.invoiceId # None
        /\ FirstInvoiceId # None => item.invoiceId = FirstInvoiceId
        /\ FirstInvoiceId = None => (IsFreshId(item.invoiceId) /\ item.invoiceId # item.id)
        /\ item.extract = invoice_data

\* C4 amended: the envelope's invoiceId is never null; it is the first
\* document's invoiceId when that is a non-empty string, and otherwise (null,
\* the empty string, or no documents) a fresh identifier distinct from the
\* envelope's own fresh id; the nested extract is left as it was, and what is
\* written to the store is that envelope.
C4_EnvelopeInvoiceId ==
    item # None =>
        /\ item.invoiceId # None
        /\ IsFreshId(item.id)
        /\ Truthy(FirstInvoiceId) => item.invoiceId = FirstInvoiceId
        /\ ~Truthy(FirstInvoiceId) => (IsFreshId(item.invoiceId) /\ item.invoiceId # item.id)
        /\ item.extract = invoice_data
        /\ \A i \in DOMAIN container_items : container_items[i] = item

\* an envelope whose first document has a null invoiceId was written
C4_Witness ==
    /\ pc = "done"
    /\ Len(invoice_data.documents) > 0
    /\ FirstInvoiceId = None
    /\ IsFreshId(item.invoiceId)
    /\ container_items = <<item>>
    /\ item.extract.documents[1].invoiceId = None

\* C5 as stated: the configuration error names exactly the unset settings, is
\* raised before a store client exists or a write is attempted, and is not
\* raised when all four are set.
C5_Original ==
    PastStoreConfig =>
        IF Unset # <<>>
        THEN /\ StoreConfigFailed
             /\ Tail(error.msg) = Unset
             /\ ~cosmos_client
             /\ CallsOf("create_item") = <<>>
        ELSE ~StoreConfigFailed

\* C5 amended: the configuration error names exactly the settings that are
\* unset or set to the empty string, all of them and in the order endpoint,
\* key, database, container; it is raised before a store client exists or a
\* write is attempted; it is not raised when all four are non-empty.
C5_MissingConfigEnumerated ==
    PastStoreConfig =>
        IF UnsetOrEmpty # <<>>
        THEN /\ StoreConfigFailed
             /\ Tail(error.msg) = UnsetOrEmpty
             /\ ~cosmos_client
             /\ item = None
             /\ CallsOf("create_item") = <<>>
             /\ container_items = <<>>
        ELSE /\ ~StoreConfigFailed
             /\ cosmos_client

\* only COSMOS_ENDPOINT is set: the error lists the other three
C5_Witness ==
    /\ StoreConfigFailed
    /\ environ["COSMOS_ENDPOINT"] = Str("configured")
    /\ Unset = <<"COSMOS_KEY", "COSMOS_DATABASE", "COSMOS_CONTAINER">>
    /\ Tail(error.msg) = <<"COSMOS_KEY", "COSMOS_DATABASE", "COSMOS_CONTAINER">>

\* C6: a call that passed the configuration check issues exactly one
\* create-item request and nothing else to the store; when the request succeeds
\* the call returns the id of the envelope that was written; when it fails with
\* a store-level HTTP error the run ends in a RuntimeError carrying that
\* error's detail, and no second request is made.
C6_SingleWriteNoRetry ==
    /\ Len(CallsOf("create_item")) <= 1
    /\ \A i \in DOMAIN calls :
          calls[i].api \in {"begin_analyze_document", "poller.result", "create_item"}
    /\ (cosmos_client /\ pc \notin {"build_item", "create_item"})
          => Len(CallsOf("create_item")) = 1
    /\ Len(CallsOf("create_item")) = 1 =>
          LET raised == CallsOf("create_item")[1].raised
          IN /\ raised = NoError =>
                   /\ container_items = <<item>>
                   /\ cosmos_item_id = item.id
                   /\ error = NoError
             /\ raised # NoError =>
                   /\ pc = "exit"
                   /\ container_items = <<>>
                   /\ cosmos_item_id = None
             /\ raised.type = "CosmosHttpResponseError" =>
                   /\ error.type = "RuntimeError"
                   /\ error.msg = <<"Failed to write invoice extraction to Cosmos DB">>
                                     \o raised.msg

\* the single write failed with a store-level HTTP error
C6_Witness ==
    /\ pc = "exit"
    /\ Len(CallsOf("create_item")) = 1
    /\ CallsOf("create_item")[1].raised.type = "CosmosHttpResponseError"
    /\ error.type = "RuntimeError"

\* C7: when the path does not exist the run ends with FileNotFoundError and a
\* non-zero exit, whatever the environment holds, and no client is built, no
\* file opened and no collaborator invoked.
C7_MissingFileNoCalls ==
    (~file_exists /\ pc # "check_file") =>
        /\ pc = "exit"
        /\ error.type = "FileNotFoundError"
        /\ ExitStatus # 0
        /\ calls = <<>>
        /\ client = None
        /\ ~cosmos_client
        /\ opens = 0
        /\ container_items = <<>>
        /\ stdout = <<>>

\* the path does not exist and no environment variable is set
C7_Witness ==
    /\ ~file_exists
    /\ pc = "exit"
    /\ error.type = "FileNotFoundError"
    /\ \A name \in EnvNames : environ[name] = None

\* the stages of main, by what each leaves behind
StageDone(k) ==
    CASE k = 1 -> result # None
      [] k = 2 -> invoice_data # None
      [] k = 3 -> container_items # <<>>
      [] k = 4 -> Len(stdout) >= 1 /\ stdout[1].line = "json"
      [] OTHER -> Len(stdout) >= 2 /\ stdout[2].line = "saved"

IsPrefix(s, t) == Len(s) <= Len(t) /\ \A i \in DOMAIN s : s[i] = t[i]

C8_StageOrder ==
    /\ \A k \in 2..5 : StageDone(k) => StageDone(k - 1)
    /\ Len(stdout) <= 2
    /\ stdout # <<>> => stdout[1] = [line |-> "json", data |-> invoice_data]
    /\ StageDone(5) =>
          /\ CallsOf("create_item") = <<Call("create_item", NoError)>>
          /\ stdout[2].data = cosmos_item_id
          /\ stdout[2].data = container_items[1].id
    /\ error # NoError => pc = "exit"
    /\ pc = "done" => (error = NoError /\ StageDone(5))

\* C8: in every run the stages happen in the order analyze, extract, persist,
\* print the JSON, print the confirmation, each only after the one before it
\* completed; no step follows an error; the confirmation follows a successful
\* write and carries the id it returned; printed output is never taken back.
C8_PipelineOrder ==
    /\ []C8_StageOrder
    /\ [][error = NoError /\ IsPrefix(stdout, stdout')]_vars

\* a run that went through all five stages
C8_Witness ==
    /\ pc = "done"
    /\ Len(stdout) = 2
    /\ stdout[2].data = item.id
    /\ Len(calls) = 3

\* C10: the file is opened at most once, only after the endpoint check passed
\* and the client was built; the handle is open only while the job is being
\* submitted; it is closed before the wait for the result begins and whenever
\* the run has ended.
C10_FileHandleScope ==
    /\ opens <= 1
    /\ opens > 0 => (Truthy(environ["DOCUMENTINTELLIGENCE_ENDPOINT"]) /\ client # None)
    /\ file_open => (opens = 1 /\ pc \in {"submit", "close"})
    /\ pc = "submit" => file_open
    /\ (pc = "poll" \/ CallsOf("poller.result") # <<>>) => ~file_open
    /\ pc \in {"exit", "done"} => ~file_open

\* a run that opened the file, released it and later failed in the store write
C10_Witness ==
    /\ pc = "exit"
    /\ opens = 1
    /\ ~file_open
    /\ error.type = "RuntimeError"

====
